---- MODULE Spec2Model ----
(***************************************************************************)
(* venvfreezer: the build / verify decision logic of VenvFreezer           *)
(* (src/venvfreezer.py).  The state is the part of the file system the     *)
(* program reads and writes (the venv directory with its checksum file and *)
(* installed packages, requirements.freeze, the loose requirement files,   *)
(* the download folder) and, for every invocation of main(), its position, *)
(* its parsed options and the list of commands it has issued so far.       *)
(***************************************************************************)
EXTENDS Integers, Sequences, FiniteSets, TLC

VARIABLES
    venv,          \* os.path.isdir(env_dir)
    checksumFile,  \* <env_dir>/requirements.sha256: [ex, data]
    sitePkgs,      \* the packages installed in the venv
    freezeFile,    \* ./requirements.freeze: [ex, data]
    loose,         \* the loose requirement files: name -> 0 (absent) or the package it names
    dlFolder,      \* os.path.isdir('requirements')
    pc,            \* position of each invocation of main()
    opts,          \* the parsed options and the builder built from them
    log,           \* what the invocation has done so far, in order
    last           \* the last finished setup run, while no file was changed since

vars == <<venv, checksumFile, sitePkgs, freezeFile, loose, dlFolder, pc, opts, log, last>>

fsvars == <<venv, checksumFile, sitePkgs, freezeFile, loose, dlFolder>>

----------------------------------------------------------------------------
(* Bounds *)

\* packages are numbered 1..MaxPkg
MaxPkg == 2

Pkgs == 1..MaxPkg

\* invocations of main(); only those Init starts ever run
Procs == {1, 2}

----------------------------------------------------------------------------
(* Class constants of VenvFreezer *)

CHECKSUM_FILENAME == "requirements.sha256"

REQUIREMENTS_FILENAMES == <<"requirements.txt", "requirements.*.txt">>

FREEZE_FILENAME == "requirements.freeze"

DOWNLOAD_FOLDER == "requirements"

\* the loose requirement files that may be present in the working directory
LooseNames == {"requirements.txt", "requirements.dev.txt", "requirements.test.txt"}

\* what a loose requirement file may be: 0, absent, or the package it names;
\* requirements.txt names any package, the optional files one fixed package each
LooseValues(name) ==
    CASE name = "requirements.txt" -> 0..MaxPkg
      [] name = "requirements.dev.txt" -> {0, 1}
      [] OTHER -> {0, MaxPkg}

\* a file name, split at its dots
NameParts(name) ==
    CASE name = "requirements.txt" -> <<"requirements", "txt">>
      [] name = "requirements.dev.txt" -> <<"requirements", "dev", "txt">>
      [] name = "requirements.test.txt" -> <<"requirements", "test", "txt">>
      [] name = "requirements.*.txt" -> <<"requirements", "*", "txt">>
      [] OTHER -> <<name>>

----------------------------------------------------------------------------
(* Files *)

NoFreeze == [ex |-> FALSE, data |-> {}]

NoChecksum == [ex |-> FALSE, data |-> 0]

File(d) == [ex |-> TRUE, data |-> d]

\* what a text file of pinned packages can hold
Contents == SUBSET Pkgs

RECURSIVE BitMask(_)
BitMask(S) ==
    IF S = {} THEN 0
    ELSE LET x == CHOOSE y \in S : TRUE
         IN  2 ^ (x - 1) + BitMask(S \ {x})

\* hashlib.sha256(bytes).hexdigest(): a non-empty text, one per content
\* (collision-free on the contents of the model); 0 is the empty text
sha256_hexdigest(content) == 1 + BitMask(content)

EmptyText == 0

Texts == {EmptyText} \cup {sha256_hexdigest(c) : c \in Contents}

\* a digest that does not depend on what the file holds
checksum_of_name(file) == sha256_hexdigest({})

checksum_of_file(file) == sha256_hexdigest(file.data)

----------------------------------------------------------------------------
(* glob.glob over the loose requirement files *)

RECURSIVE fnmatch_parts(_, _)
fnmatch_parts(parts, pat) ==
    IF pat = <<>> THEN parts = <<>>
    ELSE IF Head(pat) = "*"
         THEN \E k \in 1..Len(parts) :
                 fnmatch_parts(SubSeq(parts, k + 1, Len(parts)), Tail(pat))
         ELSE /\ parts # <<>>
              /\ Head(parts) = Head(pat)
              /\ fnmatch_parts(Tail(parts), Tail(pat))

fnmatch(name, pattern) == fnmatch_parts(NameParts(name), NameParts(pattern))

Matching(pattern) == {n \in LooseNames : loose[n] # 0 /\ fnmatch(n, pattern)}

\* the orders in which the file system may list the files of S
Orderings(S) ==
    {s \in [1..Cardinality(S) -> S] :
        \A i, j \in 1..Cardinality(S) : i # j => s[i] # s[j]}

\* glob.glob(pattern): the matching files, in an order the file system chooses
glob(pattern) == Orderings(Matching(pattern))

\* an expansion that stops after the first pattern
ExpandPatterns_first_only(patterns) ==
    IF patterns = <<>> THEN {<<>>} ELSE glob(Head(patterns))

\* itertools.chain.from_iterable(glob.glob(p) for p in patterns if glob.glob(p))
RECURSIVE ExpandPatterns(_)
ExpandPatterns(patterns) ==
    IF patterns = <<>> THEN {<<>>}
    ELSE {a \o b : a \in glob(Head(patterns)), b \in ExpandPatterns(Tail(patterns))}

----------------------------------------------------------------------------
(* PipHelper: the command lines it builds *)

pip_cmd == <<"pip">>

RECURSIVE DashR(_)
DashR(req_files) ==
    IF req_files = <<>> THEN <<>>
    ELSE <<"-r", Head(req_files)>> \o DashR(Tail(req_files))

isdir(path) == path = DOWNLOAD_FOLDER /\ dlFolder

\* PipHelper.install(*params)
install(params) == pip_cmd \o <<"install">> \o params

\* PipHelper.install_from_files(req_files, use_index, requirements_folder);
\* use_index is a Python value: "None", "True" or "False"
install_from_files(req_files, use_index, requirements_folder) ==
    pip_cmd \o <<"install">>
        \o (IF use_index = "False" THEN <<"--no-index">> ELSE <<>>)
        \o (IF isdir(requirements_folder) THEN <<"-f", requirements_folder>> ELSE <<>>)
        \o DashR(req_files)

\* PipHelper.download(download_folder, *params)
pip_download(download_folder, params) ==
    pip_cmd \o <<"download", "-d", download_folder>> \o params

pip_freeze == pip_cmd \o <<"freeze">>

\* the packages a requirement file names
Required(name) ==
    IF name = FREEZE_FILENAME THEN freezeFile.data
    ELSE IF name \in LooseNames /\ loose[name] # 0 THEN {loose[name]}
    ELSE {}

RECURSIVE RequiredAll(_)
RequiredAll(req_files) ==
    IF req_files = <<>> THEN {}
    ELSE Required(Head(req_files)) \cup RequiredAll(Tail(req_files))

----------------------------------------------------------------------------
(* VenvFreezer *)

\* VenvFreezer._is_frozen
is_frozen == freezeFile.ex

\* a validity check that accepts any checksum file it finds
check_venv_no_compare ==
    IF ~venv THEN FALSE
    ELSE IF ~is_frozen THEN FALSE
    ELSE IF ~checksumFile.ex THEN FALSE
    ELSE TRUE

\* a validity check that also wants every loose requirement to be frozen
check_venv_reads_loose ==
    IF ~venv THEN FALSE
    ELSE IF ~is_frozen THEN FALSE
    ELSE IF ~checksumFile.ex THEN FALSE
    ELSE IF checksumFile.data # checksum_of_file(freezeFile) THEN FALSE
    ELSE \A n \in LooseNames : loose[n] # 0 => loose[n] \in freezeFile.data

\* VenvFreezer._check_venv(env_dir)
check_venv ==
    IF ~venv THEN FALSE
    ELSE IF ~is_frozen THEN FALSE
    ELSE IF ~checksumFile.ex THEN FALSE
    ELSE IF checksumFile.data # checksum_of_file(freezeFile) THEN FALSE
    ELSE TRUE

\* a check that opens the checksum file before asking whether it is there
check_venv_walk_eager ==
    IF ~venv THEN
        [verdict |-> "False", message |-> "No venv found.", opened |-> {}]
    ELSE IF ~checksumFile.ex THEN
        [verdict |-> "raise", message |-> "IOError", opened |-> {CHECKSUM_FILENAME}]
    ELSE IF ~is_frozen THEN
        [verdict |-> "False", message |-> "Venv not frozen.", opened |-> {CHECKSUM_FILENAME}]
    ELSE IF checksumFile.data # checksum_of_file(freezeFile) THEN
        [verdict |-> "False", message |-> "Invalid checksum found.",
         opened |-> {CHECKSUM_FILENAME, FREEZE_FILENAME}]
    ELSE
        [verdict |-> "True", message |-> "Venv is up to date.",
         opened |-> {CHECKSUM_FILENAME, FREEZE_FILENAME}]

\* VenvFreezer._check_venv(env_dir), statement by statement: what it returns
\* (or that it raises), the last message it logs and the files it opens
check_venv_walk ==
    IF ~venv THEN
        [verdict |-> "False", message |-> "No venv found.", opened |-> {}]
    ELSE IF ~is_frozen THEN
        [verdict |-> "False", message |-> "Venv not frozen.", opened |-> {}]
    ELSE IF ~checksumFile.ex THEN
        [verdict |-> "False", message |-> "No checksum file found.", opened |-> {}]
    ELSE IF ~checksumFile.ex \/ ~freezeFile.ex THEN
        [verdict |-> "raise", message |-> "IOError",
         opened |-> {CHECKSUM_FILENAME, FREEZE_FILENAME}]
    ELSE IF checksumFile.data # checksum_of_file(freezeFile) THEN
        [verdict |-> "False", message |-> "Invalid checksum found.",
         opened |-> {CHECKSUM_FILENAME, FREEZE_FILENAME}]
    ELSE
        [verdict |-> "True", message |-> "Venv is up to date.",
         opened |-> {CHECKSUM_FILENAME, FREEZE_FILENAME}]

\* a builder that keeps an existing directory
clear_off == FALSE

\* the clear argument VenvFreezer.__init__ hands to venv.EnvBuilder
clear == TRUE

\* the use_index the builder of main() is constructed with: main() hands
\* update_pip, update_setuptools and symlinks to VenvFreezer, not use_index,
\* so the builder keeps the default of __init__
builder_use_index(options_use_index) == "None"

PyBool(b) == IF b THEN "True" ELSE "False"

\* the last finished setup run: status is "ok" or "failed" while no file was
\* changed since, "ok_loose_edited" once only loose requirement files were
\* changed after a run that ended well, "none" otherwise

\* what main() and the builder hold while idle
NoOpts == [mode |-> "none", use_index |-> TRUE, update_pip |-> FALSE,
           update_setuptools |-> FALSE, builder_use_index |-> "None"]

Snapshot == <<venv, checksumFile, freezeFile, sitePkgs>>

NoLast == [status |-> "none", rebuilt |-> FALSE, fs |-> <<>>]

Goto(p, where) == pc' = [pc EXCEPT ![p] = where]

Logged(p, event) == log' = [log EXCEPT ![p] = Append(@, event)]

\* subprocess.check_call / check_output: the command, then its exit status
Ran(p, cmd, status) == log' = [log EXCEPT ![p] = @ \o <<cmd, <<"exit", status>>>>]

----------------------------------------------------------------------------
(* Initial states *)

InitFiles ==
    /\ venv = FALSE
    /\ checksumFile = NoChecksum
    /\ sitePkgs = {}
    /\ freezeFile = NoFreeze
    /\ loose = [n \in LooseNames |-> 0]
    /\ dlFolder = FALSE
    /\ opts = [p \in Procs |-> NoOpts]
    /\ log = [p \in Procs |-> <<>>]
    /\ last = NoLast

\* one invocation of main() at a time
Init ==
    /\ InitFiles
    /\ pc = [p \in Procs |-> IF p = 1 THEN "idle" ELSE "off"]

----------------------------------------------------------------------------
(* main(): argument parsing and construction of the builder *)

Main(p) ==
    /\ pc[p] = "idle"
    /\ \E mode \in {"setup", "download"}, ui \in BOOLEAN, up \in BOOLEAN, us \in BOOLEAN :
          /\ opts' = [opts EXCEPT ![p] =
                        [mode |-> mode, use_index |-> ui, update_pip |-> up,
                         update_setuptools |-> us,
                         builder_use_index |-> builder_use_index(ui)]]
          /\ Goto(p, IF mode = "download" THEN "download" ELSE "create")
    /\ log' = [log EXCEPT ![p] = <<>>]
    /\ UNCHANGED <<fsvars, last>>

\* VenvFreezer.create(env_dir): the validity check decides
Create(p) ==
    /\ pc[p] = "create"
    /\ Logged(p, <<"_check_venv", PyBool(check_venv)>>)
    /\ Goto(p, IF check_venv THEN "done" ELSE "env_create")
    /\ UNCHANGED <<fsvars, opts, last>>

\* a create that waits while another invocation is rebuilding
EnvCreate_locked(p) ==
    /\ pc[p] = "env_create"
    /\ \A q \in Procs \ {p} :
          pc[q] \notin {"update_setuptools", "update_pip", "install", "freeze", "checksum"}
    /\ venv' = TRUE
    /\ checksumFile' = IF clear THEN NoChecksum ELSE checksumFile
    /\ sitePkgs' = IF clear THEN {} ELSE sitePkgs
    /\ Logged(p, <<"ensure_directories">>)
    /\ \/ Goto(p, "update_setuptools")
       \/ Goto(p, "failed")
    /\ UNCHANGED <<freezeFile, loose, dlFolder, opts, last>>

\* venv.EnvBuilder.create up to the post_setup hook: ensure_directories
\* (clearing an existing directory when clear is set), the interpreter, pip.
\* An error may come before or while the directory is cleared (part of its
\* contents may be gone), or after ensure_directories returned.
EnvCreate(p) ==
    /\ pc[p] = "env_create"
    /\ \/ /\ checksumFile' \in (IF clear THEN {NoChecksum} ELSE {}) \cup {checksumFile}
          /\ sitePkgs' \in (IF clear THEN {{}} ELSE {}) \cup {sitePkgs}
          /\ Goto(p, "failed")
          /\ UNCHANGED <<venv, log>>
       \/ /\ venv' = TRUE
          /\ checksumFile' = IF clear THEN NoChecksum ELSE checksumFile
          /\ sitePkgs' = IF clear THEN {} ELSE sitePkgs
          /\ Logged(p, <<"ensure_directories">>)
          /\ Goto(p, "failed")
       \/ /\ venv' = TRUE
          /\ checksumFile' = IF clear THEN NoChecksum ELSE checksumFile
          /\ sitePkgs' = IF clear THEN {} ELSE sitePkgs
          /\ Logged(p, <<"ensure_directories">>)
          /\ Goto(p, "update_setuptools")
    /\ UNCHANGED <<freezeFile, loose, dlFolder, opts, last>>

\* a setuptools upgrade that is decided by the pip flag
UpdateSetuptools_wrong_flag(p) ==
    /\ pc[p] = "update_setuptools"
    /\ IF opts[p].update_pip
       THEN \/ /\ Ran(p, install(<<"-U", "setuptools">>), "0")
               /\ Goto(p, "update_pip")
            \/ /\ Ran(p, install(<<"-U", "setuptools">>), "1")
               /\ Goto(p, "failed")
       ELSE /\ Goto(p, "update_pip")
            /\ UNCHANGED log
    /\ UNCHANGED <<fsvars, opts, last>>

\* post_setup: pip.install('-U', 'setuptools') if configured
UpdateSetuptools(p) ==
    /\ pc[p] = "update_setuptools"
    /\ IF opts[p].update_setuptools
       THEN \/ /\ Ran(p, install(<<"-U", "setuptools">>), "0")
               /\ Goto(p, "update_pip")
            \/ /\ Ran(p, install(<<"-U", "setuptools">>), "1")
               /\ Goto(p, "failed")
       ELSE /\ Goto(p, "update_pip")
            /\ UNCHANGED log
    /\ UNCHANGED <<fsvars, opts, last>>

\* post_setup: pip.install('-U', 'pip') if configured
UpdatePip(p) ==
    /\ pc[p] = "update_pip"
    /\ IF opts[p].update_pip
       THEN \/ /\ Ran(p, install(<<"-U", "pip">>), "0")
               /\ Goto(p, "install")
            \/ /\ Ran(p, install(<<"-U", "pip">>), "1")
               /\ Goto(p, "failed")
       ELSE /\ Goto(p, "install")
            /\ UNCHANGED log
    /\ UNCHANGED <<fsvars, opts, last>>

\* subprocess.call in place of check_call: a non-zero exit status is ignored
RunInstall_unchecked(p, req_files, next) ==
    LET cmd == install_from_files(req_files, opts[p].builder_use_index,
                                  DOWNLOAD_FOLDER)
    IN  \/ /\ req_files # <<>>
           /\ Ran(p, cmd, "0")
           /\ sitePkgs' = sitePkgs \cup RequiredAll(req_files)
           /\ Goto(p, next)
        \/ /\ Ran(p, cmd, "1")
           /\ \E some \in SUBSET RequiredAll(req_files) : sitePkgs' = sitePkgs \cup some
           /\ Goto(p, next)

\* pip install -r ...: exit status 0 installs what the files name; pip
\* refuses a command that names no requirement at all
RunInstall(p, req_files, next) ==
    LET cmd == install_from_files(req_files, opts[p].builder_use_index,
                                  DOWNLOAD_FOLDER)
    IN  \/ /\ req_files # <<>>
           /\ Ran(p, cmd, "0")
           /\ sitePkgs' = sitePkgs \cup RequiredAll(req_files)
           /\ Goto(p, next)
        \/ /\ Ran(p, cmd, "1")
           /\ \E some \in SUBSET RequiredAll(req_files) : sitePkgs' = sitePkgs \cup some
           /\ Goto(p, "failed")

\* a requirement install that expands the loose patterns whatever is frozen
Install_glob_always(p) ==
    /\ pc[p] = "install"
    /\ \E filenames \in ExpandPatterns(REQUIREMENTS_FILENAMES) :
          RunInstall(p, filenames, IF is_frozen THEN "checksum" ELSE "freeze")
    /\ UNCHANGED <<venv, checksumFile, freezeFile, loose, dlFolder, opts, last>>

\* an unfrozen branch that goes on to the checksum without capturing the freeze
Install_skips_freeze(p) ==
    /\ pc[p] = "install"
    /\ IF is_frozen
       THEN RunInstall(p, <<FREEZE_FILENAME>>, "checksum")
       ELSE \E filenames \in ExpandPatterns(REQUIREMENTS_FILENAMES) :
               RunInstall(p, filenames, "checksum")
    /\ UNCHANGED <<venv, checksumFile, freezeFile, loose, dlFolder, opts, last>>

\* post_setup: the requirement install, from the freeze file if there is one
Install(p) ==
    /\ pc[p] = "install"
    /\ IF is_frozen
       THEN RunInstall(p, <<FREEZE_FILENAME>>, "checksum")
       ELSE \E filenames \in ExpandPatterns(REQUIREMENTS_FILENAMES) :
               RunInstall(p, filenames, "freeze")
    /\ UNCHANGED <<venv, checksumFile, freezeFile, loose, dlFolder, opts, last>>

\* a capture that opens the file and never writes the output
Freeze_no_write(p) ==
    /\ pc[p] = "freeze"
    /\ \/ /\ Ran(p, pip_freeze, "0")
          /\ freezeFile' = File({})
          /\ Goto(p, "checksum")
       \/ /\ Ran(p, pip_freeze, "1")
          /\ freezeFile' = File({})
          /\ Goto(p, "failed")
    /\ UNCHANGED <<venv, checksumFile, sitePkgs, loose, dlFolder, opts, last>>

\* PipHelper.freeze(freeze_filepath): the file is opened for writing, then
\* pip freeze runs, then its output is written
Freeze(p) ==
    /\ pc[p] = "freeze"
    /\ \/ /\ Ran(p, pip_freeze, "0")
          /\ freezeFile' = File(sitePkgs)
          /\ Goto(p, "checksum")
       \/ /\ Ran(p, pip_freeze, "1")
          /\ freezeFile' = File({})
          /\ Goto(p, "failed")
    /\ UNCHANGED <<venv, checksumFile, sitePkgs, loose, dlFolder, opts, last>>

\* a checksum step that opens the file and never writes the digest
WriteChecksum_truncated(p) ==
    /\ pc[p] = "checksum"
    /\ Logged(p, <<"write", CHECKSUM_FILENAME>>)
    /\ checksumFile' = File(EmptyText)
    /\ \/ Goto(p, "done")
       \/ Goto(p, "failed")
    /\ UNCHANGED <<venv, sitePkgs, freezeFile, loose, dlFolder, opts, last>>

\* a checksum step that is not the last one: a later step may still fail
WriteChecksum_not_last(p) ==
    /\ pc[p] = "checksum"
    /\ Logged(p, <<"write", CHECKSUM_FILENAME>>)
    /\ freezeFile.ex
    /\ checksumFile' = File(checksum_of_file(freezeFile))
    /\ \/ Goto(p, "done")
       \/ Goto(p, "failed")
    /\ UNCHANGED <<venv, sitePkgs, freezeFile, loose, dlFolder, opts, last>>

\* post_setup: the checksum file is opened for writing, then the freeze
\* file is hashed, then the digest is written
WriteChecksum(p) ==
    /\ pc[p] = "checksum"
    /\ Logged(p, <<"write", CHECKSUM_FILENAME>>)
    /\ \/ /\ freezeFile.ex
          /\ checksumFile' = File(checksum_of_file(freezeFile))
          /\ Goto(p, "done")
       \/ /\ checksumFile' = File(EmptyText)
          /\ Goto(p, "failed")
    /\ UNCHANGED <<venv, sitePkgs, freezeFile, loose, dlFolder, opts, last>>

\* a download that does not ask whether the venv is frozen
Download_unchecked(p) ==
    /\ pc[p] = "download"
    /\ LET cmd == pip_download(DOWNLOAD_FOLDER, <<"-r", FREEZE_FILENAME>>)
       IN  \/ /\ venv /\ is_frozen
              /\ Ran(p, cmd, "0")
              /\ dlFolder' = TRUE
              /\ Goto(p, "done")
           \/ /\ Ran(p, cmd, "1")
              /\ dlFolder' \in {dlFolder, venv \/ dlFolder}
              /\ Goto(p, "failed")
    /\ UNCHANGED <<venv, checksumFile, sitePkgs, freezeFile, loose, opts, last>>

\* a main() whose except clause catches every exception of download
Download_catch_all(p) ==
    /\ pc[p] = "download"
    /\ IF ~is_frozen
       THEN /\ Goto(p, "caught")
            /\ UNCHANGED <<log, dlFolder>>
       ELSE LET cmd == pip_download(DOWNLOAD_FOLDER, <<"-r", FREEZE_FILENAME>>)
            IN  \/ /\ venv
                   /\ Ran(p, cmd, "0")
                   /\ dlFolder' = TRUE
                   /\ Goto(p, "done")
                \/ /\ Ran(p, cmd, "1")
                   /\ dlFolder' \in {dlFolder, venv \/ dlFolder}
                   /\ Goto(p, "caught")
    /\ UNCHANGED <<venv, checksumFile, sitePkgs, freezeFile, loose, opts, last>>

\* a download that first wants a valid venv
Download_checks_validity(p) ==
    /\ pc[p] = "download"
    /\ IF ~is_frozen \/ ~check_venv
       THEN /\ Goto(p, "caught")
            /\ UNCHANGED <<log, dlFolder>>
       ELSE LET cmd == pip_download(DOWNLOAD_FOLDER, <<"-r", FREEZE_FILENAME>>)
            IN  \/ /\ venv
                   /\ Ran(p, cmd, "0")
                   /\ dlFolder' = TRUE
                   /\ Goto(p, "done")
                \/ /\ Ran(p, cmd, "1")
                   /\ dlFolder' \in {dlFolder, venv \/ dlFolder}
                   /\ Goto(p, "failed")
    /\ UNCHANGED <<venv, checksumFile, sitePkgs, freezeFile, loose, opts, last>>

\* VenvFreezer.download(env_dir)
Download(p) ==
    /\ pc[p] = "download"
    /\ IF ~is_frozen
       THEN /\ Goto(p, "caught")
            /\ UNCHANGED <<log, dlFolder>>
       ELSE LET cmd == pip_download(DOWNLOAD_FOLDER, <<"-r", FREEZE_FILENAME>>)
            IN  \/ /\ venv
                   /\ Ran(p, cmd, "0")
                   /\ dlFolder' = TRUE
                   /\ Goto(p, "done")
                \/ /\ Ran(p, cmd, "1")
                   /\ dlFolder' \in {dlFolder, venv \/ dlFolder}
                   /\ Goto(p, "failed")
    /\ UNCHANGED <<venv, checksumFile, sitePkgs, freezeFile, loose, opts, last>>

\* main() returns (done), logs the domain error and returns (caught), or
\* ends with the exception that reached it (failed)
Return(p) ==
    /\ pc[p] \in {"done", "caught", "failed"}
    /\ last' = IF opts[p].mode = "setup"
               THEN [status |-> IF pc[p] = "done" THEN "ok" ELSE "failed",
                     rebuilt |-> log[p][1] = <<"_check_venv", "False">>,
                     fs |-> Snapshot]
               ELSE NoLast
    /\ Goto(p, "idle")
    /\ opts' = [opts EXCEPT ![p] = NoOpts]
    /\ log' = [log EXCEPT ![p] = <<>>]
    /\ UNCHANGED fsvars

----------------------------------------------------------------------------
(* The operator's edits between invocations *)

Quiet == \A p \in Procs : pc[p] \in {"idle", "off"}

EditFreeze ==
    /\ Quiet
    /\ \E f \in {NoFreeze} \cup {File(c) : c \in Contents} :
          /\ f # freezeFile
          /\ freezeFile' = f
    /\ last' = NoLast
    /\ UNCHANGED <<venv, checksumFile, sitePkgs, loose, dlFolder, pc, opts, log>>

EditChecksum ==
    /\ Quiet
    /\ venv
    /\ \E f \in {NoChecksum} \cup {File(t) : t \in Texts} :
          /\ f # checksumFile
          /\ checksumFile' = f
    /\ last' = NoLast
    /\ UNCHANGED <<venv, sitePkgs, freezeFile, loose, dlFolder, pc, opts, log>>

EditLoose ==
    /\ Quiet
    /\ \E n \in LooseNames :
       \E v \in LooseValues(n) :
          /\ v # loose[n]
          /\ loose' = [loose EXCEPT ![n] = v]
    /\ last' = IF last.status \in {"ok", "ok_loose_edited"}
               THEN [last EXCEPT !.status = "ok_loose_edited"]
               ELSE NoLast
    /\ UNCHANGED <<venv, checksumFile, sitePkgs, freezeFile, dlFolder, pc, opts, log>>

RemoveVenv ==
    /\ Quiet
    /\ venv
    /\ venv' = FALSE
    /\ checksumFile' = NoChecksum
    /\ sitePkgs' = {}
    /\ last' = NoLast
    /\ UNCHANGED <<freezeFile, loose, dlFolder, pc, opts, log>>

RemoveDownloads ==
    /\ Quiet
    /\ dlFolder
    /\ dlFolder' = FALSE
    /\ last' = NoLast
    /\ UNCHANGED <<venv, checksumFile, sitePkgs, freezeFile, loose, pc, opts, log>>

----------------------------------------------------------------------------

Next ==
    \/ \E p \in Procs : Main(p)
    \/ \E p \in Procs : Create(p)
    \/ \E p \in Procs : EnvCreate(p)
    \/ \E p \in Procs : UpdateSetuptools(p)
    \/ \E p \in Procs : UpdatePip(p)
    \/ \E p \in Procs : Install(p)
    \/ \E p \in Procs : Freeze(p)
    \/ \E p \in Procs : WriteChecksum(p)
    \/ \E p \in Procs : Download(p)
    \/ \E p \in Procs : Return(p)
    \/ EditFreeze
    \/ EditChecksum
    \/ EditLoose
    \/ RemoveVenv
    \/ RemoveDownloads

Spec == Init /\ [][Next]_vars

----------------------------------------------------------------------------
(* Invocations only: nobody edits a file between or during the runs *)

\* no venv directory yet; the working directory holds any requirement files
\* and any freeze file
InitRuns ==
    /\ venv = FALSE
    /\ checksumFile = NoChecksum
    /\ sitePkgs = {}
    /\ freezeFile \in {NoFreeze} \cup {File(c) : c \in Contents}
    /\ loose \in {f \in [LooseNames -> 0..MaxPkg] : \A n \in LooseNames : f[n] \in LooseValues(n)}
    /\ dlFolder = FALSE
    /\ opts = [p \in Procs |-> NoOpts]
    /\ log = [p \in Procs |-> <<>>]
    /\ last = NoLast
    /\ pc = [p \in Procs |-> IF p = 1 THEN "idle" ELSE "off"]

NextRuns ==
    \/ \E p \in Procs : Main(p)
    \/ \E p \in Procs : Create(p)
    \/ \E p \in Procs : EnvCreate(p)
    \/ \E p \in Procs : UpdateSetuptools(p)
    \/ \E p \in Procs : UpdatePip(p)
    \/ \E p \in Procs : Install(p)
    \/ \E p \in Procs : Freeze(p)
    \/ \E p \in Procs : WriteChecksum(p)
    \/ \E p \in Procs : Download(p)
    \/ \E p \in Procs : Return(p)

SpecRuns == InitRuns /\ [][NextRuns]_vars

\* as InitRuns, with no freeze file
InitFresh == InitRuns /\ freezeFile = NoFreeze

SpecFresh == InitFresh /\ [][NextRuns]_vars

\* two invocations of main() against the same directory, with no lock
InitConc ==
    /\ venv = FALSE
    /\ checksumFile = NoChecksum
    /\ sitePkgs = {}
    /\ freezeFile \in {NoFreeze} \cup {File(c) : c \in Contents}
    /\ loose \in {f \in [LooseNames -> 0..MaxPkg] : \A n \in LooseNames : f[n] \in LooseValues(n)}
    /\ dlFolder = FALSE
    /\ opts = [p \in Procs |-> NoOpts]
    /\ log = [p \in Procs |-> <<>>]
    /\ last = NoLast
    /\ pc = [p \in Procs |-> "idle"]

\* both invocations are `setup` with no option given
NextConc ==
    \/ \E p \in Procs :
          /\ Main(p)
          /\ opts'[p].mode = "setup"
          /\ opts'[p].use_index
          /\ ~opts'[p].update_pip
          /\ ~opts'[p].update_setuptools
    \/ \E p \in Procs : Create(p)
    \/ \E p \in Procs : EnvCreate(p)
    \/ \E p \in Procs : UpdateSetuptools(p)
    \/ \E p \in Procs : UpdatePip(p)
    \/ \E p \in Procs : Install(p)
    \/ \E p \in Procs : Freeze(p)
    \/ \E p \in Procs : WriteChecksum(p)
    \/ \E p \in Procs : Return(p)

SpecConc == InitConc /\ [][NextConc]_vars

----------------------------------------------------------------------------
(* Reading the log *)

Running(p) == pc[p] \notin {"idle", "off"}

Has(seq, x) == \E i \in 1..Len(seq) : seq[i] = x

IsPip(e) == Len(e) >= 1 /\ e[1] = "pip"

\* a pip install that is not one of the two upgrades
IsRequirementInstall(e) ==
    Len(e) >= 2 /\ e[1] = "pip" /\ e[2] = "install" /\ ~Has(e, "-U")

\* the files a command names with -r, in order
RECURSIVE ReqFilesOf(_)
ReqFilesOf(e) ==
    IF Len(e) < 2 THEN <<>>
    ELSE IF Head(e) = "-r" THEN <<e[2]>> \o ReqFilesOf(SubSeq(e, 3, Len(e)))
    ELSE ReqFilesOf(Tail(e))

CheckSaid(p, verdict) == Len(log[p]) >= 1 /\ log[p][1] = <<"_check_venv", verdict>>

Recreated(p) == Has(log[p], <<"ensure_directories">>)

WritePos(p) == {i \in 1..Len(log[p]) : log[p][i] = <<"write", CHECKSUM_FILENAME>>}

\* the directory, the freeze file and the checksum file exist and the
\* checksum file holds the digest of the freeze file
ValidOnDisk ==
    /\ venv
    /\ freezeFile.ex
    /\ checksumFile.ex
    /\ checksumFile.data = sha256_hexdigest(freezeFile.data)

----------------------------------------------------------------------------
(* Claims *)

\* C1: setup skips the rebuild if and only if the directory, the freeze file
\* and the checksum file exist and the checksum file equals the digest of the
\* freeze file: a run that goes on to rebuild found the disk not valid, and a
\* run that finished without rebuilding found it valid.
C1_SkipIffValid ==
    \A p \in Procs :
        /\ pc[p] = "env_create" => ~ValidOnDisk
        /\ (opts[p].mode = "setup" /\ pc[p] = "done" /\ ~Recreated(p)) => ValidOnDisk

\* a rebuild started because the checksum file does not match the freeze file
C1_Witness ==
    \E p \in Procs :
        /\ pc[p] = "env_create"
        /\ venv /\ freezeFile.ex /\ checksumFile.ex

\* C2: a setup run that follows a successful setup run with no file changed
\* in between judges the venv valid, runs no pip command and leaves the
\* directory, the freeze file and the checksum file as they were.
C2_Idempotent ==
    \A p \in Procs :
        (last.status = "ok" /\ opts[p].mode = "setup" /\ Running(p)) =>
            /\ pc[p] \in {"create", "done"}
            /\ pc[p] = "done" => CheckSaid(p, "True")
            /\ \A i \in 1..Len(log[p]) : ~IsPip(log[p][i])
            /\ Snapshot = last.fs

\* the second run of a pair whose first run rebuilt the venv has finished
C2_Witness ==
    \E p \in Procs :
        /\ last.status = "ok" /\ last.rebuilt
        /\ opts[p].mode = "setup" /\ pc[p] = "done"

\* C3: when the freeze file exists as the rebuild reaches its requirement
\* install, the install command names exactly that one file with -r and
\* names no loose requirement file.
C3_FrozenFirst ==
    [][\A p \in Procs :
          (pc[p] = "install" /\ pc'[p] # "install" /\ freezeFile.ex) =>
              LET cmd == log'[p][Len(log[p]) + 1]
              IN  /\ Len(log'[p]) = Len(log[p]) + 2
                  /\ IsRequirementInstall(cmd)
                  /\ ReqFilesOf(cmd) = <<FREEZE_FILENAME>>
                  /\ \A n \in LooseNames : ~Has(cmd, n)]_vars

\* a frozen rebuild has installed while loose requirement files were present
C3_Witness ==
    \E p \in Procs :
        /\ pc[p] = "checksum"
        /\ \E n \in LooseNames : loose[n] # 0
        /\ \E i \in 1..Len(log[p]) :
              IsRequirementInstall(log[p][i]) /\ ReqFilesOf(log[p][i]) = <<FREEZE_FILENAME>>

\* C4: when a rebuild completes successfully, in the frozen and in the
\* unfrozen branch, the checksum file holds the digest of the freeze file
\* that exists at that moment.
C4_SealedPairing ==
    \A p \in Procs :
        (opts[p].mode = "setup" /\ pc[p] = "done" /\ Recreated(p)) =>
            /\ freezeFile.ex
            /\ checksumFile.ex
            /\ checksumFile.data = sha256_hexdigest(freezeFile.data)

\* an unfrozen rebuild that installed something has completed
C4_Witness ==
    \E p \in Procs :
        /\ opts[p].mode = "setup" /\ pc[p] = "done"
        /\ Has(log[p], pip_freeze)
        /\ freezeFile.data # {}

\* C5: within one rebuild the checksum file is written at most once, as the
\* last thing the run does: after the directory was recreated, after a
\* requirement install, after no command that exited non-zero, and while
\* the freeze file exists; a rebuild that has not reached the write has left
\* no checksum file, and a rebuild that completed has written it.
C5_ChecksumLast ==
    \A p \in Procs :
        opts[p].mode = "setup" =>
            /\ Cardinality(WritePos(p)) <= 1
            /\ \A i \in WritePos(p) :
                  /\ i = Len(log[p])
                  /\ pc[p] \in {"done", "failed"}
                  /\ freezeFile.ex
                  /\ \E j \in 1..(i - 1) : log[p][j] = <<"ensure_directories">>
                  /\ \E j \in 1..(i - 1) : IsRequirementInstall(log[p][j])
                  /\ \A j \in 1..(i - 1) : log[p][j] # <<"exit", "1">>
            /\ (Recreated(p) /\ WritePos(p) = {}) => ~checksumFile.ex
            /\ (Recreated(p) /\ pc[p] = "done") => WritePos(p) # {}

\* an unfrozen rebuild with both upgrades has written the checksum file
C5_Witness ==
    \E p \in Procs :
        /\ pc[p] = "done"
        /\ WritePos(p) # {}
        /\ Has(log[p], pip_freeze)
        /\ Has(log[p], install(<<"-U", "pip">>))
        /\ Has(log[p], install(<<"-U", "setuptools">>))

\* C6: after a setup run that failed, and with no file changed since, the
\* disk is not valid, and the next setup run judges it invalid and finishes
\* only by recreating the directory.
C6_SelfHealing ==
    last.status = "failed" =>
        /\ Quiet => ~ValidOnDisk
        /\ \A p \in Procs :
              (opts[p].mode = "setup" /\ Running(p)) =>
                  /\ pc[p] = "create" => ~ValidOnDisk
                  /\ pc[p] # "create" => CheckSaid(p, "False")
                  /\ pc[p] = "done" => Recreated(p)

\* a run that failed while writing the checksum file is followed by a run
\* that rebuilt and completed
C6_Witness ==
    \E p \in Procs :
        /\ last.status = "failed"
        /\ last.fs[2].ex
        /\ opts[p].mode = "setup" /\ pc[p] = "done"

\* C7: every pip command of a rebuild comes after the directory was cleared
\* and recreated, and from then until the requirement install is issued the
\* directory holds neither a checksum file nor an installed package.
C7_DestroyBeforeInstall ==
    \A p \in Procs :
        opts[p].mode = "setup" =>
            /\ \A i \in 1..Len(log[p]) :
                  IsPip(log[p][i]) => \E j \in 1..(i - 1) : log[p][j] = <<"ensure_directories">>
            /\ pc[p] \in {"update_setuptools", "update_pip", "install"} =>
                  /\ venv
                  /\ ~checksumFile.ex
                  /\ sitePkgs = {}

\* a rebuild is about to install into a directory that held packages and a
\* checksum file when the run before it ended
C7_Witness ==
    \E p \in Procs :
        /\ pc[p] = "install"
        /\ last.status = "failed"
        /\ last.fs[2].ex
        /\ last.fs[4] # {}

\* C8: download without a freeze file ends in the domain error, has run no
\* command and has changed neither the directory, the freeze file, the
\* checksum file nor the download folder.
C8_DownloadNeedsFreeze ==
    [][\A p \in Procs :
          (pc[p] = "download" /\ pc'[p] # "download" /\ ~freezeFile.ex) =>
              /\ pc'[p] = "caught"
              /\ log'[p] = <<>>
              /\ UNCHANGED fsvars]_vars

\* a download has been refused while a venv directory exists
C8_Witness ==
    \E p \in Procs :
        /\ pc[p] = "caught"
        /\ venv
        /\ log[p] = <<>>

\* C9: a freeze capture that fails leaves the freeze file as it was: absent
\* if it was absent, with its previous contents otherwise.
C9_NoPartialFreeze ==
    [][\A p \in Procs :
          (pc[p] = "freeze" /\ pc'[p] = "failed") => freezeFile' = freezeFile]_vars

\* C10: the requirement install of a setup run carries --no-index exactly
\* when the run was started with --no-index.
C10_NoIndexHonoured ==
    \A p \in Procs :
        \A i \in 1..Len(log[p]) :
            IsRequirementInstall(log[p][i]) =>
                (Has(log[p][i], "--no-index") <=> ~opts[p].use_index)

\* C11: through any sequence of setup and download runs, successful or not,
\* that starts with no venv directory, the checksum file never exists while
\* the freeze file does not.
C11_RecordImpliesSnapshot == checksumFile.ex => freezeFile.ex

\* a run has failed while sealing: the checksum file exists and is empty
C11_Witness ==
    \E p \in Procs :
        /\ pc[p] = "failed"
        /\ checksumFile = File(EmptyText)
        /\ WritePos(p) # {}

\* C12 as stated: every rebuild that completes has captured the freeze output
\* of the new venv and left it in the freeze file.
C12_AlwaysRewritten ==
    \A p \in Procs :
        (opts[p].mode = "setup" /\ pc[p] = "done" /\ Recreated(p)) =>
            /\ Has(log[p], pip_freeze)
            /\ freezeFile = File(sitePkgs)

\* C12 amended: a rebuild that reaches its requirement install with no freeze
\* file goes on to capture, and a successful capture leaves the freeze file
\* holding the freeze output of the new venv; a rebuild that finds a freeze
\* file goes on to the checksum without capturing, and neither the install
\* nor the checksum step changes the freeze file.
C12_RewrittenWhenUnfrozen ==
    [][\A p \in Procs :
          /\ (pc[p] = "install" /\ pc'[p] \notin {"install", "failed"}) =>
                /\ pc'[p] = IF freezeFile.ex THEN "checksum" ELSE "freeze"
                /\ freezeFile' = freezeFile
          /\ (pc[p] = "freeze" /\ pc'[p] = "checksum") =>
                /\ freezeFile' = File(sitePkgs)
                /\ log'[p] = log[p] \o <<pip_freeze, <<"exit", "0">>>>
          /\ (pc[p] = "checksum" /\ pc'[p] # "checksum") => freezeFile' = freezeFile]_vars

\* a rebuild has captured a freeze file that names a package
C12_Witness ==
    \E p \in Procs :
        /\ pc[p] = "checksum"
        /\ Has(log[p], pip_freeze)
        /\ freezeFile.ex /\ freezeFile.data # {}
        /\ freezeFile.data = sitePkgs

\* C13: main() catches the domain exception alone, which only a download
\* with no freeze file raises, before any command; a command that exits
\* non-zero is the last thing its run does and the run ends with the
\* exception uncaught, as does a run whose checksum write failed; no command
\* is issued twice in a run, and a run that completes saw no failure.
C13_ErrorPolicy ==
    \A p \in Procs :
        /\ pc[p] = "caught" =>
              /\ opts[p].mode = "download"
              /\ ~freezeFile.ex
              /\ log[p] = <<>>
        /\ \A i \in 1..Len(log[p]) :
              log[p][i] = <<"exit", "1">> => (i = Len(log[p]) /\ pc[p] = "failed")
        /\ (WritePos(p) # {} /\ checksumFile = File(EmptyText)) => pc[p] = "failed"
        /\ \A i, j \in 1..Len(log[p]) :
              (i < j /\ IsPip(log[p][i])) => log[p][i] # log[p][j]
        /\ pc[p] = "done" => ~Has(log[p], <<"exit", "1">>)

\* a download whose pip command exited non-zero has ended uncaught
C13_Witness ==
    \E p \in Procs :
        /\ opts[p].mode = "download"
        /\ pc[p] = "failed"
        /\ log[p] = <<pip_download(DOWNLOAD_FOLDER, <<"-r", FREEZE_FILENAME>>), <<"exit", "1">>>>

\* the loose files present that match a configured pattern
AllMatching ==
    {n \in LooseNames :
        loose[n] # 0 /\ \E k \in 1..Len(REQUIREMENTS_FILENAMES) :
                           fnmatch(n, REQUIREMENTS_FILENAMES[k])}

\* the first configured pattern a file matches
PatternIndex(n) ==
    CHOOSE k \in 1..Len(REQUIREMENTS_FILENAMES) :
        /\ fnmatch(n, REQUIREMENTS_FILENAMES[k])
        /\ \A j \in 1..(k - 1) : ~fnmatch(n, REQUIREMENTS_FILENAMES[j])

ReqInstallPos(p) == {i \in 1..Len(log[p]) : IsRequirementInstall(log[p][i])}

\* C14: a rebuild that reaches its requirement install with no freeze file
\* issues one install command that names with -r every present file matching
\* a configured pattern, each once, files of an earlier pattern first; a run
\* holds at most one requirement install; the capture is the next command
\* after that install exited 0, and is issued before any checksum write; the
\* checksum step of such a run comes right after the capture exited 0.
C14_UnfrozenSequence ==
    [][\A p \in Procs :
          /\ Cardinality(ReqInstallPos(p)) <= 1
          /\ (pc[p] = "install" /\ pc'[p] # "install" /\ ~freezeFile.ex) =>
                LET cmd   == log'[p][Len(log[p]) + 1]
                    files == ReqFilesOf(cmd)
                IN  /\ Len(log'[p]) = Len(log[p]) + 2
                    /\ IsRequirementInstall(cmd)
                    /\ {files[i] : i \in 1..Len(files)} = AllMatching
                    /\ Len(files) = Cardinality(AllMatching)
                    /\ \A i, j \in 1..Len(files) :
                          i < j => PatternIndex(files[i]) <= PatternIndex(files[j])
                    /\ pc'[p] \in {"freeze", "failed"}
                    /\ pc'[p] = "freeze" <=> log'[p][Len(log'[p])] = <<"exit", "0">>
          /\ (pc[p] = "freeze" /\ pc'[p] # "freeze") =>
                /\ IsRequirementInstall(log[p][Len(log[p]) - 1])
                /\ log[p][Len(log[p])] = <<"exit", "0">>
                /\ WritePos(p) = {}
                /\ Len(log'[p]) = Len(log[p]) + 2
                /\ log'[p][Len(log[p]) + 1] = pip_freeze
          /\ (pc[p] = "checksum" /\ Has(log[p], pip_freeze) /\ pc'[p] # "checksum") =>
                /\ log[p][Len(log[p]) - 1] = pip_freeze
                /\ log[p][Len(log[p])] = <<"exit", "0">>
                /\ log'[p] = Append(log[p], <<"write", CHECKSUM_FILENAME>>)]_vars

\* an unfrozen rebuild that installed from three requirement files has completed
C14_Witness ==
    \E p \in Procs :
        /\ pc[p] = "done"
        /\ Has(log[p], pip_freeze)
        /\ \E i \in ReqInstallPos(p) : Len(ReqFilesOf(log[p][i])) = 3

PosOf(p, cmd) == {i \in 1..Len(log[p]) : log[p][i] = cmd}

Upgrades == {install(<<"-U", "setuptools">>), install(<<"-U", "pip">>)}

Configured(p, cmd) ==
    IF cmd = install(<<"-U", "setuptools">>) THEN opts[p].update_setuptools
    ELSE opts[p].update_pip

\* C15: in a setup run each upgrade command is issued at most once and only if
\* configured; when the run is at or past its requirement install, every
\* configured upgrade was issued before it and exited 0; after an upgrade
\* that exited non-zero the run has failed with no requirement install, no
\* capture, no checksum write and no checksum file.
C15_UpgradesFirst ==
    \A p \in Procs :
        opts[p].mode = "setup" =>
            \A u \in Upgrades :
                /\ Cardinality(PosOf(p, u)) <= 1
                /\ PosOf(p, u) # {} => Configured(p, u)
                /\ (Configured(p, u) /\ (pc[p] = "install" \/ ReqInstallPos(p) # {})) =>
                      \E j \in PosOf(p, u) :
                          /\ log[p][j + 1] = <<"exit", "0">>
                          /\ \A i \in ReqInstallPos(p) : j + 1 < i
                /\ \A j \in PosOf(p, u) :
                      log[p][j + 1] = <<"exit", "1">> =>
                          /\ pc[p] = "failed"
                          /\ ReqInstallPos(p) = {}
                          /\ ~Has(log[p], pip_freeze)
                          /\ WritePos(p) = {}
                          /\ ~checksumFile.ex

\* a frozen rebuild with both upgrades configured has completed
C15_Witness ==
    \E p \in Procs :
        /\ pc[p] = "done"
        /\ opts[p].update_pip /\ opts[p].update_setuptools
        /\ ReqInstallPos(p) # {}
        /\ ~Has(log[p], pip_freeze)

\* between the validity check and the checksum write of a rebuild
MidRebuild == {"env_create", "update_setuptools", "update_pip", "install", "freeze", "checksum"}

\* C16: nothing makes one invocation wait for another: whenever an
\* invocation stands before its validity check, before clearing the
\* directory or before capturing the freeze file, that step can be taken,
\* whatever the other invocation is in the middle of.
C16_NoMutualExclusion ==
    \A q \in Procs :
        /\ pc[q] = "create" => ENABLED Create(q)
        /\ pc[q] = "env_create" => ENABLED EnvCreate(q)
        /\ pc[q] = "freeze" => ENABLED Freeze(q)

\* both invocations judged the venv invalid; one has installed packages and
\* stands before its checksum write, and the other has since cleared the
\* directory: the packages are gone
C16_Witness ==
    \E p \in Procs : \E q \in Procs \ {p} :
        /\ CheckSaid(p, "False") /\ CheckSaid(q, "False")
        /\ pc[p] = "checksum"
        /\ \E i \in ReqInstallPos(p) :
              /\ log[p][i + 1] = <<"exit", "0">>
              /\ RequiredAll(ReqFilesOf(log[p][i])) # {}
        /\ pc[q] = "update_setuptools"
        /\ Recreated(q)
        /\ sitePkgs = {}

\* C17: on every disk the validity check returns True or False and never
\* raises; it reports a missing directory first, then a missing freeze file,
\* then a missing checksum file, then a mismatch; it opens the checksum file
\* and the freeze file only when the directory and both files exist; the
\* step that runs it logs that verdict and changes no file.
C17_CheckTotalOrdered ==
    [][/\ check_venv_walk.verdict \in {"True", "False"}
       /\ check_venv_walk.verdict = PyBool(check_venv)
       /\ ~venv => check_venv_walk.message = "No venv found."
       /\ (venv /\ ~freezeFile.ex) => check_venv_walk.message = "Venv not frozen."
       /\ (venv /\ freezeFile.ex /\ ~checksumFile.ex) =>
             check_venv_walk.message = "No checksum file found."
       /\ (venv /\ freezeFile.ex /\ checksumFile.ex) =>
             check_venv_walk.message =
                 IF checksumFile.data = sha256_hexdigest(freezeFile.data)
                 THEN "Venv is up to date." ELSE "Invalid checksum found."
       /\ check_venv_walk.opened # {} => (venv /\ freezeFile.ex /\ checksumFile.ex)
       /\ \A p \in Procs :
             (pc[p] = "create" /\ pc'[p] # "create") =>
                 /\ log'[p] = <<<<"_check_venv", check_venv_walk.verdict>>>>
                 /\ UNCHANGED fsvars]_vars

\* the check has answered for a directory that holds a checksum file while
\* the freeze file is missing
C17_Witness ==
    \E p \in Procs :
        /\ pc[p] = "env_create"
        /\ venv /\ ~freezeFile.ex /\ checksumFile.ex
        /\ check_venv_walk.message = "Venv not frozen."

\* C18: through setup runs that start with no freeze file, with the loose
\* requirement files unchanged and earlier runs failing anywhere, no run
\* reaches its requirement install with a freeze file on disk, and the run
\* that completes a rebuild installed from the loose files and left the
\* freeze file holding the freeze output captured after that install.
C18_GenuineSnapshot ==
    \A p \in Procs :
        /\ pc[p] = "install" => ~freezeFile.ex
        /\ (opts[p].mode = "setup" /\ pc[p] = "done" /\ Recreated(p)) =>
              /\ Has(log[p], pip_freeze)
              /\ \E i \in ReqInstallPos(p) :
                    {ReqFilesOf(log[p][i])[k] : k \in 1..Len(ReqFilesOf(log[p][i]))}
                        = AllMatching
              /\ freezeFile = File(sitePkgs)

\* C19: after a setup run that ended well, with loose requirement files
\* added, removed or changed since and nothing else, the next setup run
\* judges the venv valid, runs no pip command and leaves the directory, the
\* freeze file and the checksum file as that run left them.
C19_LooseFilesIgnored ==
    \A p \in Procs :
        (last.status = "ok_loose_edited" /\ opts[p].mode = "setup" /\ Running(p)) =>
            /\ pc[p] \in {"create", "done"}
            /\ pc[p] = "done" => CheckSaid(p, "True")
            /\ \A i \in 1..Len(log[p]) : ~IsPip(log[p][i])
            /\ Snapshot = last.fs

\* a sealed rebuild, then a loose requirement file naming a package the
\* freeze file does not hold, then a setup run that has finished
C19_Witness ==
    \E p \in Procs :
        /\ last.status = "ok_loose_edited" /\ last.rebuilt
        /\ opts[p].mode = "setup" /\ pc[p] = "done"
        /\ \E n \in LooseNames : loose[n] # 0 /\ loose[n] \notin freezeFile.data

\* C20: the download step leaves the venv directory, the freeze file and the
\* checksum file as they were and logs no validity check; when the freeze
\* file exists it issues exactly one command, pip download -d requirements
\* -r requirements.freeze, whatever the state of the venv directory and of
\* the checksum file, and when the freeze file is missing it issues none.
C20_DownloadFrame ==
    [][\A p \in Procs :
          (pc[p] = "download" /\ pc'[p] # "download") =>
              /\ UNCHANGED <<venv, checksumFile, freezeFile, sitePkgs>>
              /\ \A i \in 1..Len(log'[p]) : log'[p][i][1] # "_check_venv"
              /\ IF freezeFile.ex
                 THEN /\ Len(log'[p]) = 2
                      /\ log'[p][1] = <<"pip", "download", "-d", DOWNLOAD_FOLDER,
                                        "-r", FREEZE_FILENAME>>
                      /\ log'[p][2][1] = "exit"
                 ELSE log'[p] = <<>>]_vars

\* a download that ended well beside a venv directory that is not valid
C20_Witness ==
    \E p \in Procs :
        /\ opts[p].mode = "download" /\ pc[p] = "done"
        /\ freezeFile.ex /\ venv /\ ~ValidOnDisk
        /\ Has(log[p], pip_download(DOWNLOAD_FOLDER, <<"-r", FREEZE_FILENAME>>))

====
